---- MODULE Spec2Model ----
(***************************************************************************)
(* A model of src/src/copyrightinserter.ts: the CopyrightInserter class of *)
(* the copyright-inserter VS Code extension.                               *)
(*                                                                         *)
(* JavaScript strings are TLA+ strings (TLC evaluates Len, SubSeq and \o   *)
(* on them); a document is its text with "\n" line breaks, as              *)
(* TextDocument.getText returns it.  A value that may be undefined is the  *)
(* empty tuple Undefined or the one-element tuple Some(v).                 *)
(***************************************************************************)
EXTENDS Integers, Sequences, FiniteSets, TLC

Undefined == <<>>
Some(v) == <<v>>
IsDefined(o) == o # Undefined
Val(o) == o[1]

(***************************************************************************)
(* String primitives of the JavaScript runtime.                            *)
(***************************************************************************)
CharAt(s, i) == SubSeq(s, i, i)

\* s.startsWith(p) at offset i (1-based)
StartsWithAt(s, p, i) ==
    /\ i + Len(p) - 1 <= Len(s)
    /\ SubSeq(s, i, i + Len(p) - 1) = p

StartsWith(s, p) == StartsWithAt(s, p, 1)

\* s.indexOf(p) >= 0
Includes(s, p) == \E i \in 1..(Len(s) - Len(p) + 1) : StartsWithAt(s, p, i)

UpperLetters == "ABCDEFGHIJKLMNOPQRSTUVWXYZ"
LowerLetters == "abcdefghijklmnopqrstuvwxyz"

LowerChar(c) ==
    IF \E k \in 1..26 : CharAt(UpperLetters, k) = c
    THEN CharAt(LowerLetters, CHOOSE k \in 1..26 : CharAt(UpperLetters, k) = c)
    ELSE c

RECURSIVE ToLowerFrom(_, _)
ToLowerFrom(s, i) ==
    IF i > Len(s) THEN "" ELSE LowerChar(CharAt(s, i)) \o ToLowerFrom(s, i + 1)

\* String.prototype.toLowerCase on ASCII text
ToLowerCase(s) == ToLowerFrom(s, 1)

IsWhiteSpace(c) == c \in {" ", "\t", "\n", "\r", "\f"}

RECURSIVE TrimmedLen(_, _)
TrimmedLen(s, n) ==
    IF n = 0 \/ ~IsWhiteSpace(CharAt(s, n)) THEN n ELSE TrimmedLen(s, n - 1)

\* String.prototype.trimRight
TrimRight(s) == SubSeq(s, 1, TrimmedLen(s, Len(s)))

\* the offsets of the "\n" characters of s
NewlineOffsets(s) == {i \in 1..Len(s) : CharAt(s, i) = "\n"}

\* the offset of the k-th "\n" of s (k >= 1), given the set nl of them
NthOffset(nl, k) == CHOOSE i \in nl : Cardinality({j \in nl : j < i}) = k - 1

\* the pieces of s between the offsets nl of its n separators
Pieces(s, nl, n) ==
    [k \in 1..(n + 1) |->
        SubSeq(s,
               IF k = 1 THEN 1 ELSE NthOffset(nl, k - 1) + 1,
               IF k = n + 1 THEN Len(s) ELSE NthOffset(nl, k) - 1)]

\* s.split("\n")
Split(s) == Pieces(s, NewlineOffsets(s), Cardinality(NewlineOffsets(s)))

(***************************************************************************)
(* The license templates.                                                  *)
(***************************************************************************)
ApacheTemplate(holder, year) ==
    "Copyright " \o year \o " " \o holder \o "\n"
    \o "\n"
    \o "Licensed under the Apache License, Version 2.0 (the \"License\");\n"
    \o "you may not use this file except in compliance with the License.\n"
    \o "You may obtain a copy of the License at\n"
    \o "\n"
    \o "     https://www.apache.org/licenses/LICENSE-2.0\n"
    \o "\n"
    \o "Unless required by applicable law or agreed to in writing, software\n"
    \o "distributed under the License is distributed on an \"AS IS\" BASIS,\n"
    \o "WITHOUT WARRANTIES OR CONDITIONS OF ANY KIND, either express or implied.\n"
    \o "See the License for the specific language governing permissions and\n"
    \o "limitations under the License."

BsdTemplate(holder, year) ==
    "Copyright (c) " \o year \o " " \o holder \o " All rights reserved.\n"
    \o "Use of this source code is governed by a BSD-style\n"
    \o "license that can be found in the LICENSE file."

MitTemplate(holder, year) ==
    "Copyright (c) " \o year \o " " \o holder \o "\n"
    \o "\n"
    \o "Permission is hereby granted, free of charge, to any person obtaining a copy of\n"
    \o "this software and associated documentation files (the \"Software\"), to deal in\n"
    \o "the Software without restriction, including without limitation the rights to\n"
    \o "use, copy, modify, merge, publish, distribute, sublicense, and/or sell copies of\n"
    \o "the Software, and to permit persons to whom the Software is furnished to do so,\n"
    \o "subject to the following conditions:\n"
    \o "\n"
    \o "The above copyright notice and this permission notice shall be included in all\n"
    \o "copies or substantial portions of the Software.\n"
    \o "\n"
    \o "THE SOFTWARE IS PROVIDED \"AS IS\", WITHOUT WARRANTY OF ANY KIND, EXPRESS OR\n"
    \o "IMPLIED, INCLUDING BUT NOT LIMITED TO THE WARRANTIES OF MERCHANTABILITY, FITNESS\n"
    \o "FOR A PARTICULAR PURPOSE AND NONINFRINGEMENT. IN NO EVENT SHALL THE AUTHORS OR\n"
    \o "COPYRIGHT HOLDERS BE LIABLE FOR ANY CLAIM, DAMAGES OR OTHER LIABILITY, WHETHER\n"
    \o "IN AN ACTION OF CONTRACT, TORT OR OTHERWISE, ARISING FROM, OUT OF OR IN\n"
    \o "CONNECTION WITH THE SOFTWARE OR THE USE OR OTHER DEALINGS IN THE SOFTWARE."

Gpl3Template(holder, year) ==
    "Copyright (c) " \o year \o " " \o holder \o "\n"
    \o "\n"
    \o "This program is free software: you can redistribute it and/or modify\n"
    \o "it under the terms of the GNU General Public License as published by\n"
    \o "the Free Software Foundation, either version 3 of the License, or\n"
    \o "(at your option) any later version.\n"
    \o "\n"
    \o "This program is distributed in the hope that it will be useful,\n"
    \o "but WITHOUT ANY WARRANTY; without even the implied warranty of\n"
    \o "MERCHANTABILITY or FITNESS FOR A PARTICULAR PURPOSE.  See the\n"
    \o "GNU General Public License for more details.\n"
    \o "\n"
    \o "You should have received a copy of the GNU General Public License\n"
    \o "along with this program.  If not, see <https://www.gnu.org/licenses/>."

\* the keys of CopyrightMap
CopyrightMapKeys == {"apache", "bsd", "mit", "gpl3"}

\* CopyrightMap.get(license)(holder, year), for a key of the map
CopyrightMap(license, holder, year) ==
    CASE license = "apache" -> ApacheTemplate(holder, year)
      [] license = "bsd"    -> BsdTemplate(holder, year)
      [] license = "mit"    -> MitTemplate(holder, year)
      [] license = "gpl3"   -> Gpl3Template(holder, year)

(***************************************************************************)
(* formatString and formatHeader.                                          *)
(***************************************************************************)
\* FormatLines without the trimRight of line 241
RECURSIVE FormatLinesNoTrim(_, _, _)
FormatLinesNoTrim(lines, k, prefix) ==
    IF k > Len(lines) THEN ""
    ELSE prefix \o lines[k] \o "\n" \o FormatLinesNoTrim(lines, k + 1, prefix)

RECURSIVE FormatLines(_, _, _)
FormatLines(lines, k, prefix) ==
    IF k > Len(lines) THEN ""
    ELSE TrimRight(prefix \o lines[k]) \o "\n" \o FormatLines(lines, k + 1, prefix)

FormatString(header, first_line, prefix, last_line) ==
    (IF first_line # "" THEN first_line \o "\n" ELSE "")
    \o FormatLines(Split(header), 1, prefix)
    \o (IF last_line # "" THEN last_line \o "\n" ELSE "")
    \o "\n"

\* a CommentRule c: [lineComment: Undefined or Some(token),
\*                   blockComment: Undefined or Some(<<open, close>>)];
\* an empty lineComment string is falsy in JavaScript
HasBlockComment(c) == IsDefined(c.blockComment)
HasLineComment(c) == IsDefined(c.lineComment) /\ Val(c.lineComment) # ""

FormatHeader(body, c, useLineComment) ==
    IF ~useLineComment /\ HasBlockComment(c)
    THEN IF Val(c.blockComment)[1] = "/*"
         THEN FormatString(body, Val(c.blockComment)[1] \o "*", " * ",
                           " " \o Val(c.blockComment)[2])
         ELSE FormatString(body, Val(c.blockComment)[1], "", Val(c.blockComment)[2])
    ELSE IF HasLineComment(c)
         THEN FormatString(body, "", Val(c.lineComment) \o " ", "")
         ELSE FormatString(body, "", "", "")

(***************************************************************************)
(* Regular expressions.  The patterns of this program are of two shapes:   *)
(* a language's firstLine source, modelled for sources that are an         *)
(* optional "^" followed by literal (possibly backslash-escaped)           *)
(* characters, and the two patterns hasCopyright builds.                   *)
(***************************************************************************)
RegexpSpecialChars == {"-", "/", "\\", "^", "$", "*", "+", "?", ".",
                       "(", ")", "|", "[", "]", "{", "}"}

RECURSIVE EscapeFrom(_, _)
EscapeFrom(s, i) ==
    IF i > Len(s) THEN ""
    ELSE (IF CharAt(s, i) \in RegexpSpecialChars THEN "\\" ELSE "")
         \o CharAt(s, i) \o EscapeFrom(s, i + 1)

EscapeStringForRegexp(s) == EscapeFrom(s, 1)

RECURSIVE UnescapeFrom(_, _)
UnescapeFrom(p, i) ==
    IF i > Len(p) THEN ""
    ELSE IF CharAt(p, i) = "\\" /\ i < Len(p)
         THEN CharAt(p, i + 1) \o UnescapeFrom(p, i + 2)
         ELSE CharAt(p, i) \o UnescapeFrom(p, i + 1)

\* the literal text a pattern source of escaped and ordinary characters matches
PatternLiteral(p) == UnescapeFrom(p, 1)

\* new RegExp(source), no flags
NewRegExp(source) ==
    IF StartsWith(source, "^")
    THEN [anchored |-> TRUE,  literal |-> PatternLiteral(SubSeq(source, 2, Len(source)))]
    ELSE [anchored |-> FALSE, literal |-> PatternLiteral(source)]

\* re.test(s)
RegExpTest(re, s) ==
    IF re.anchored THEN StartsWith(s, re.literal) ELSE Includes(s, re.literal)

IsLineTerminator(c) == c \in {"\n", "\r"}

\* where "^" matches under the m flag
LineStartOffsets(s) ==
    {1} \cup {i + 1 : i \in {j \in 1..Len(s) : IsLineTerminator(CharAt(s, j))}}

\* s matches lit at offset i, ignoring case (the i flag)
MatchesAtIgnoreCase(s, lit, i) ==
    /\ i + Len(lit) - 1 <= Len(s)
    /\ ToLowerCase(SubSeq(s, i, i + Len(lit) - 1)) = ToLowerCase(lit)

\* the offsets at which s holds "Copyright", ignoring case
CopyrightOffsets(s) ==
    {j \in 1..(Len(s) - 8) :
        /\ CharAt(s, j) \in {"C", "c"}
        /\ ToLowerCase(SubSeq(s, j, j + 8)) = "copyright"}

\* a match of ^lit.*Copyright in s, with "Copyright" at one of the offsets cp
CopyrightMatch(lit, dotAll, s, cp) ==
    \E b \in LineStartOffsets(s) :
        /\ MatchesAtIgnoreCase(s, lit, b)
        /\ \E j \in cp :
            /\ j >= b + Len(lit)
            /\ dotAll \/ \A k \in (b + Len(lit))..(j - 1) :
                            ~IsLineTerminator(CharAt(s, k))

\* new RegExp(`^${opener}.*Copyright`, dotAll ? "mis" : "mi").test(s)
CopyrightRegExpTest(opener, dotAll, s) ==
    CopyrightMatch(PatternLiteral(opener), dotAll, s, CopyrightOffsets(s))

(***************************************************************************)
(* The host's document model.                                              *)
(***************************************************************************)
\* TextDocument.lineCount
LineCount(text) == Cardinality(NewlineOffsets(text)) + 1

\* TextDocument.getText(new Range(0, 0, n, 0)): the range is clamped to the
\* document
TextBefore(text, nl, n) ==
    IF Cardinality(nl) >= n THEN SubSeq(text, 1, NthOffset(nl, n)) ELSE text

GetTextLines(text, n) == TextBefore(text, NewlineOffsets(text), n)

\* the document after b.insert(new Position(line, 0), s): a position past the
\* last line is clamped to the end of the document
OffsetAt(text, nl, line) ==
    IF line = 0 THEN 0
    ELSE IF line <= Cardinality(nl) THEN NthOffset(nl, line)
    ELSE Len(text)

InsertAtOffset(text, off, s) ==
    SubSeq(text, 1, off) \o s \o SubSeq(text, off + 1, Len(text))

InsertAt(text, line, s) ==
    InsertAtOffset(text, OffsetAt(text, NewlineOffsets(text), line), s)

(***************************************************************************)
(* path.extname and path.join.                                             *)
(***************************************************************************)
RECURSIVE LastIndexOf(_, _, _)
LastIndexOf(s, c, i) ==
    IF i = 0 \/ CharAt(s, i) = c THEN i ELSE LastIndexOf(s, c, i - 1)

ExtName(fileName) ==
    LET slash == LastIndexOf(fileName, "/", Len(fileName))
        base  == SubSeq(fileName, slash + 1, Len(fileName))
        dot   == LastIndexOf(base, ".", Len(base))
    IN  IF dot <= 1 \/ base = ".." THEN "" ELSE SubSeq(base, dot, Len(base))

PathJoin(dir, rel) ==
    dir \o "/" \o (IF StartsWith(rel, "./") THEN SubSeq(rel, 3, Len(rel)) ELSE rel)

(***************************************************************************)
(* The host: the installed extensions (vscode.extensions.all, in the       *)
(* host's order) and the language-configuration files they ship, already   *)
(* parsed.  A language contribution: id, extensions (may be absent),       *)
(* firstLine (may be absent), configuration (a path relative to the        *)
(* extension).                                                             *)
(***************************************************************************)
Language(id, extensions, firstLine, configuration) ==
    [id |-> id, extensions |-> extensions, firstLine |-> firstLine,
     configuration |-> configuration]

Comments(lineComment, blockComment) ==
    [comments |-> Some([lineComment |-> lineComment, blockComment |-> blockComment])]

CBlock == Some(<<"/*", "*/">>)
XmlBlock == Some(<<"<!--", "-->">>)

Extensions ==
    << [extensionPath |-> "/ext/theme", languages |-> Undefined],
       [extensionPath |-> "/ext/cpp", languages |-> Some(<<
            Language("c", Some(<<".c", ".h">>), Undefined, "./language-configuration.json") >>)],
       [extensionPath |-> "/ext/web", languages |-> Some(<<
            Language("css", Some(<<".css">>), Undefined, "./css.json"),
            Language("html", Some(<<".html", ".htm">>), Undefined, "./html.json"),
            Language("xml", Some(<<".xml">>), Some("<\\?xml"), "./html.json") >>)],
       [extensionPath |-> "/ext/shell", languages |-> Some(<<
            Language("shellscript", Some(<<".sh">>), Some("^#!/bin/bash"), "./sh.json"),
            Language("bat", Some(<<".bat">>), Undefined, "./bat.json") >>)],
       [extensionPath |-> "/ext/misc", languages |-> Some(<<
            Language("plaintext", Some(<<".txt">>), Undefined, "./plaintext.json"),
            Language("raw", Some(<<".raw">>), Undefined, "./raw.json"),
            Language("log", Some(<<>>), Undefined, "./hash.json"),
            Language("ignore", Undefined, Undefined, "./hash.json"),
            Language("broken", Some(<<".brk">>), Undefined, "./missing.json") >>)],
       [extensionPath |-> "/ext/cpp-extra", languages |-> Some(<<
            Language("c", Some(<<".c", ".cc">>), Some("^#pragma once"), "./line-only.json") >>)] >>

ConfigurationFiles ==
    { [path |-> "/ext/cpp/language-configuration.json", json |-> Comments(Some("//"), CBlock)],
      [path |-> "/ext/web/css.json",        json |-> Comments(Undefined, CBlock)],
      [path |-> "/ext/web/html.json",       json |-> Comments(Undefined, XmlBlock)],
      [path |-> "/ext/shell/sh.json",       json |-> Comments(Some("#"), Undefined)],
      [path |-> "/ext/shell/bat.json",      json |-> Comments(Some("REM"), Undefined)],
      [path |-> "/ext/misc/plaintext.json", json |-> Comments(Undefined, Undefined)],
      [path |-> "/ext/misc/raw.json",       json |-> [comments |-> Undefined]],
      [path |-> "/ext/misc/hash.json",      json |-> Comments(Some("#"), Undefined)],
      [path |-> "/ext/cpp-extra/line-only.json", json |-> Comments(Some("//"), Undefined)] }

\* the result of a call that may throw
Throw == [kind |-> "throw"]
Value(v) == [kind |-> "value", value |-> v]

\* require(uri), or the parse of the file with its comment lines blanked: both
\* give the file's JSON value; a file that cannot be read throws
LoadLanguageConfiguration(uri) ==
    IF \E f \in ConfigurationFiles : f.path = uri
    THEN Value((CHOOSE f \in ConfigurationFiles : f.path = uri).json)
    ELSE Throw

(***************************************************************************)
(* getExtensionConfig and CopyrightData.  A setting of the configuration   *)
(* view is Undefined (configView.get returns undefined) or Some(value).    *)
(***************************************************************************)
\* String((new Date()).getFullYear())
CurrentYear == "2026"

\* String(x) of undefined or a string
String(o) == IF IsDefined(o) THEN Val(o) ELSE "undefined"

\* x || d, for x undefined or a string
OrElse(o, d) == IF IsDefined(o) /\ Val(o) # "" THEN Val(o) ELSE d

\* new CopyrightData(holder, year)
CopyrightData(holder, year) ==
    [holder |-> IF holder # "" THEN holder ELSE "Google LLC",
     year   |-> IF year # "" THEN year ELSE CurrentYear]

GetExtensionConfig(configView) ==
    [license        |-> OrElse(configView.license, "apache"),
     useLineComment |-> IsDefined(configView.useLineComment) /\ Val(configView.useLineComment),
     data           |-> CopyrightData(String(configView.holder),
                                      OrElse(configView.year, CurrentYear))]

(***************************************************************************)
(* getLanguageConfigById.  The cache (a Map) is the set of its entries.    *)
(***************************************************************************)
MapHas(m, k) == \E e \in m : e.key = k
MapGet(m, k) == (CHOOSE e \in m : e.key = k).value
MapSet(m, k, v) == {e \in m : e.key # k} \cup {[key |-> k, value |-> v]}

\* CacheKey without the file extension
CacheKeyIdOnly(id, fileExt) == id

\* the key of cachedLanguageConfigs
CacheKey(id, fileExt) == id \o "+" \o fileExt

\* the predicate given to languages.find: "yes", "no", or "throw" when
\* it.extensions is undefined and indexOf is called on it
LanguageMatches(it, id, fileExt) ==
    IF it.id # id THEN "no"
    ELSE IF fileExt = "" THEN "yes"
    ELSE IF ~IsDefined(it.extensions) THEN "throw"
    ELSE IF \E k \in 1..Len(Val(it.extensions)) : Val(it.extensions)[k] = fileExt
         THEN "yes" ELSE "no"

\* languages.find(...): Value(Some(it)) for the first match, Value(Undefined)
RECURSIVE FindLanguage(_, _, _, _)
FindLanguage(languages, k, id, fileExt) ==
    IF k > Len(languages) THEN Value(Undefined)
    ELSE LET m == LanguageMatches(languages[k], id, fileExt)
         IN  IF m = "throw" THEN Throw
             ELSE IF m = "yes" THEN Value(Some(languages[k]))
             ELSE FindLanguage(languages, k + 1, id, fileExt)

\* the LanguageConfig built from a matching contribution
BuildLanguageConfig(extension, data, id) ==
    LET vsconfig == LoadLanguageConfiguration(
                        PathJoin(extension.extensionPath, data.configuration))
    IN  IF vsconfig.kind = "throw" THEN Throw
        ELSE Value(Some([id        |-> id,
                         firstLine |-> IF IsDefined(data.firstLine) /\ Val(data.firstLine) # ""
                                       THEN Some(NewRegExp(Val(data.firstLine)))
                                       ELSE Undefined,
                         vsconfig  |-> vsconfig.value]))

\* the loop over vscode.extensions.all, from the e-th extension on
RECURSIVE ScanExtensions(_, _, _)
\* one turn of the loop, data being what languages.find returned
ScanStep(e, id, fileExt, data) ==
    IF data.kind = "throw" THEN Throw
    ELSE IF IsDefined(data.value)
         THEN BuildLanguageConfig(Extensions[e], Val(data.value), id)
         ELSE ScanExtensions(e + 1, id, fileExt)

ScanExtensions(e, id, fileExt) ==
    IF e > Len(Extensions) THEN Value(Undefined)
    ELSE IF ~IsDefined(Extensions[e].languages) THEN ScanExtensions(e + 1, id, fileExt)
    ELSE ScanStep(e, id, fileExt,
                  FindLanguage(Val(Extensions[e].languages), 1, id, fileExt))

\* a cache miss, r being what the loop over the extensions came to
OnCacheMiss(cache, key, r) ==
    IF r.kind = "throw"
    THEN [kind |-> "throw", value |-> Undefined, cache |-> cache, hit |-> FALSE]
    ELSE IF IsDefined(r.value)
    THEN [kind |-> "value", value |-> r.value,
          cache |-> MapSet(cache, key, Val(r.value)), hit |-> FALSE]
    ELSE [kind |-> "value", value |-> Undefined, cache |-> cache, hit |-> FALSE]

LookUp(cache, id, fileExt, key) ==
    IF MapHas(cache, key)
    THEN [kind |-> "value", value |-> Some(MapGet(cache, key)),
          cache |-> cache, hit |-> TRUE]
    ELSE OnCacheMiss(cache, key, ScanExtensions(1, id, fileExt))

\* path.extname(fileName).toLowerCase()
FileExt(fileName) == ToLowerCase(ExtName(fileName))

\* [kind, value (Undefined or Some(LanguageConfig)), cache (the cache after
\* the call), hit (whether the cache answered)]
GetLanguageConfigById(cache, id, fileName) ==
    LookUp(cache, id, FileExt(fileName), CacheKey(id, FileExt(fileName)))

(***************************************************************************)
(* hasCopyright and calculateInsertLineIndex.                              *)
(***************************************************************************)
\* the number of leading lines hasCopyright scans
ScanLines == 10

\* comments is language.vsconfig.comments, Undefined or Some(CommentRule);
\* c!.blockComment on undefined throws
\* TestPrefix without the s flag of line 173
TestPrefixNoDotAll(prefix, c) ==
    \/ /\ HasBlockComment(c)
       /\ CopyrightRegExpTest(EscapeStringForRegexp(Val(c.blockComment)[1]), FALSE, prefix)
    \/ /\ HasLineComment(c)
       /\ CopyrightRegExpTest(EscapeStringForRegexp(Val(c.lineComment)), FALSE, prefix)

\* the two tests of hasCopyright on the scanned text
TestPrefix(prefix, c) ==
    \/ /\ HasBlockComment(c)
       /\ CopyrightRegExpTest(EscapeStringForRegexp(Val(c.blockComment)[1]), TRUE, prefix)
    \/ /\ HasLineComment(c)
       /\ CopyrightRegExpTest(EscapeStringForRegexp(Val(c.lineComment)), FALSE, prefix)

\* comments is language.vsconfig.comments, Undefined or Some(CommentRule);
\* c!.blockComment on undefined throws
HasCopyright(text, comments) ==
    IF ~IsDefined(comments) THEN Throw
    ELSE Value(TestPrefix(GetTextLines(text, ScanLines), Val(comments)))

\* InsertLineFor without the two overrides of lines 222-229
InsertLineForPatternOnly(firstLine, language) ==
    IF IsDefined(language.firstLine) /\ RegExpTest(Val(language.firstLine), firstLine)
    THEN 1 ELSE 0

\* the three tests of calculateInsertLineIndex on the first line's text
InsertLineFor(firstLine, language) ==
    LET line0 == IF IsDefined(language.firstLine)
                    /\ RegExpTest(Val(language.firstLine), firstLine)
                 THEN 1 ELSE 0
        line1 == IF language.id = "html" /\ StartsWith(firstLine, "<!doctype")
                 THEN 1 ELSE line0
    IN  IF language.id = "shellscript" /\ StartsWith(firstLine, "#!/") THEN 1 ELSE line1

CalculateInsertLineIndex(text, language) ==
    InsertLineFor(GetTextLines(text, 1), language)

(***************************************************************************)
(* insertHeader.  The record of one invocation: log (the console messages  *)
(* written), edits (the insertions issued through editor.edit), thrown     *)
(* (an exception left the method), cache (cachedLanguageConfigs after      *)
(* it), and what the invocation computed on its way: config, lookup,       *)
(* detected, startLine, header.                                            *)
(***************************************************************************)
MsgLicense    == "license type is not supported"
MsgNoEditor   == "no active editor found"
MsgNoLanguage == "failed to find configuration for language"
MsgHasHeader  == "document already has copyright header"
MsgInvalid    == "language defines invalid comments"

StopMessages == {MsgLicense, MsgNoEditor, MsgNoLanguage, MsgHasHeader, MsgInvalid}

\* console.log / console.error followed by return
Stop(run, msg) == [run EXCEPT !.log = Append(run.log, msg)]

\* EditText without the test of line 124
EditTextNoNewline(startLine, lineCount, header) == header

\* the text handed to b.insert
EditText(startLine, lineCount, header) ==
    IF startLine = lineCount THEN "\n" \o header ELSE header

\* lines 116-128: the check of the header, the edit
IssueEdit(run, startLine, header, lineCount) ==
    IF header = ""
    THEN Stop([run EXCEPT !.startLine = Some(startLine), !.header = Some(header)],
              MsgInvalid)
    ELSE [run EXCEPT !.startLine = Some(startLine), !.header = Some(header),
                     !.edits = Append(run.edits,
                                  [line |-> startLine,
                                   text |-> EditText(startLine, lineCount, header)])]

\* lines 114-128: the insertion line, the header, the edit
InsertInto(run, document, language, extensionConfig) ==
    IssueEdit(run,
              CalculateInsertLineIndex(document.text, language),
              FormatHeader(CopyrightMap(extensionConfig.license,
                                        extensionConfig.data.holder,
                                        extensionConfig.data.year),
                           Val(language.vsconfig.comments),
                           extensionConfig.useLineComment),
              LineCount(document.text))

\* OnHeaderDetected without the return of line 111
OnHeaderDetectedFallsThrough(run, rest) == [rest EXCEPT !.log = <<MsgHasHeader>> \o rest.log]

\* lines 109-112: with a header detected the method returns; rest is what the
\* statements after the if would do
OnHeaderDetected(run, rest) == Stop(run, MsgHasHeader)

\* lines 109-128, found being what hasCopyright returned
AfterDetection(run, found, document, language, extensionConfig) ==
    IF found.kind = "throw" THEN [run EXCEPT !.thrown = TRUE]
    ELSE IF found.value
    THEN OnHeaderDetected([run EXCEPT !.detected = Some(TRUE)],
                          InsertInto([run EXCEPT !.detected = Some(TRUE)],
                                     document, language, extensionConfig))
    ELSE InsertInto([run EXCEPT !.detected = Some(FALSE)],
                    document, language, extensionConfig)

\* lines 109-128
WithLanguage(run, document, language, extensionConfig) ==
    AfterDetection(run, HasCopyright(document.text, language.vsconfig.comments),
                   document, language, extensionConfig)

\* lines 104-128, language being what getLanguageConfigById returned
AfterLookup(run, document, language, extensionConfig) ==
    IF language.kind = "throw" THEN [run EXCEPT !.thrown = TRUE]
    ELSE IF ~IsDefined(language.value) THEN Stop(run, MsgNoLanguage)
    ELSE WithLanguage(run, document, Val(language.value), extensionConfig)

\* the record of an invocation after its call of getLanguageConfigById
Looked(run, document, language) ==
    [run EXCEPT !.cache = language.cache,
                !.lookup = Some([id |-> document.languageId,
                                 fileName |-> document.fileName,
                                 hit |-> language.hit,
                                 kind |-> language.kind,
                                 value |-> language.value])]

\* lines 103-128
WithEditor(run, document, language, extensionConfig) ==
    AfterLookup(Looked(run, document, language), document, language, extensionConfig)

\* lines 92-128
WithConfig(run, extensionConfig, editor, cache) ==
    IF extensionConfig.license \notin CopyrightMapKeys THEN Stop(run, MsgLicense)
    ELSE IF ~IsDefined(editor) THEN Stop(run, MsgNoEditor)
    ELSE WithEditor(run, Val(editor),
                    GetLanguageConfigById(cache, Val(editor).languageId,
                                          Val(editor).fileName),
                    extensionConfig)

\* the record an invocation starts with
StartRun(extensionConfig, cache) ==
    [log |-> <<>>, edits |-> <<>>, thrown |-> FALSE, cache |-> cache,
     config |-> extensionConfig, lookup |-> Undefined,
     detected |-> Undefined, startLine |-> Undefined, header |-> Undefined]

RunInsertHeader(configView, editor, cache) ==
    WithConfig(StartRun(GetExtensionConfig(configView), cache),
               GetExtensionConfig(configView), editor, cache)

\* the editor after the edits of an invocation are applied
RECURSIVE ApplyEdits(_, _, _)
ApplyEdits(text, edits, k) ==
    IF k > Len(edits) THEN text
    ELSE ApplyEdits(InsertAt(text, edits[k].line, edits[k].text), edits, k + 1)

(***************************************************************************)
(* The environment: the files the user may open and the settings the user  *)
(* may choose.                                                             *)
(***************************************************************************)
Doc(fileName, languageId, text) ==
    [fileName |-> fileName, languageId |-> languageId, text |-> text]

Setting(license, useLineComment, holder, year) ==
    [license |-> license, useLineComment |-> useLineComment,
     holder |-> holder, year |-> year]

Configurations ==
    { Setting(Undefined, Undefined, Undefined, Undefined),
      Setting(Some("bsd"), Some(FALSE), Some(""), Some("")),
      Setting(Some("mit"), Some(TRUE), Some("Example Corp"), Some("2020")),
      Setting(Some("gpl3"), Some(FALSE), Some("Example Corp"), Undefined),
      Setting(Some("lgpl"), Some(FALSE), Some("Example Corp"), Some("2020")),
      Setting(Some(""), Some(TRUE), Undefined, Some("2020")),
      Setting(Some("apache"), Some(FALSE), Some("Example Corp"), Some("2020")) }

NineLines == "int a;\nint b;\nint c;\nint d;\nint e;\nint f;\nint g;\nint h;\nint i;\n"

Workspaces ==
    << \* C sources: the shapes of the header and of its detection
       { Doc("/w/main.c", "c", "int x;"),
         Doc("/w/util.c", "c", "int a;\nint b;\n"),
         Doc("/w/old.c", "c", "/* legacy */\nint copyright;\n"),
         Doc("/w/lic.h", "c", "// COPYRIGHT 2020 Example Corp\nint x;\n"),
         Doc("/w/note.c", "c", "int x; // Copyright\n"),
         Doc("/w/gap.c", "c", "  /* Copyright */\n//\nCopyright\n"),
         Doc("/w/ten.c", "c", NineLines \o "/* Copyright */\n"),
         Doc("/w/eleven.c", "c", NineLines \o "int j;\n// Copyright\n"),
         Doc("/w/late.c", "c", NineLines \o "/*\n * Copyright\n */\n") },
       \* first lines that stay first
       { Doc("/w/run.sh", "shellscript", "#!/bin/bash"),
         Doc("/w/fish.sh", "shellscript", "#!/usr/bin/env fish\necho hi\n"),
         Doc("/w/plain.sh", "shellscript", "echo hi\n"),
         Doc("/w/index.html", "html", "<!doctype html>\n<html></html>\n"),
         Doc("/w/upper.html", "html", "<!DOCTYPE html>"),
         Doc("/w/bang.html", "html", "#!/bin/bash\n"),
         Doc("/w/data.xml", "xml", "<?xml version=\"1.0\"?>\n<a/>\n"),
         Doc("/w/svg.xml", "xml", "<svg/>"),
         Doc("/w/tool.c", "c", "#!/bin/bash\nint x;\n") },
       \* languages with one comment style, or none
       { Doc("/w/style.css", "css", "body { }\n"),
         Doc("/w/empty.css", "css", ""),
         Doc("/w/notes.txt", "plaintext", "hello\n"),
         Doc("/w/build.bat", "bat", "echo off\n"),
         Doc("/w/done.bat", "bat", "rem copyright 2020\n"),
         Doc("/w/blob.raw", "raw", "data") },
       \* the resolver: one language id under several extensions
       { Doc("/w/a.c", "c", "int x;\n"),
         Doc("/w/B.C", "c", "int x;\n"),
         Doc("/w/x.cc", "c", "#pragma once\nint x;\n"),
         Doc("Untitled-1", "c", "#pragma once\n"),
         Doc("/w/y.cpp", "c", "int x;\n"),
         Doc("/w/odd.c", "css", "int x;\n") },
       \* the resolver: contributions without extensions, unknown languages
       { Doc("/w/app.log", "log", "started\n"),
         Doc("/w/syslog", "log", "started\n"),
         Doc("/w/.gitignore", "ignore", "*.o\n"),
         Doc("/w/extra.ignore", "ignore", "*.o\n"),
         Doc("/w/z.brk", "broken", "x\n"),
         Doc("/w/q.zig", "zig", "x\n") } >>

\* the most headers an open document receives before the model stops following it
MaxInsertions == 2

(***************************************************************************)
(* The state.                                                              *)
(***************************************************************************)
VARIABLES
    configView,             \* vscode.workspace.getConfiguration(): the settings
    activeTextEditor,       \* vscode.window.activeTextEditor: Undefined or Some(document)
    cachedLanguageConfigs,  \* CopyrightInserter.cachedLanguageConfigs
    workspace,              \* which set of files is open to the user
    insertions,             \* the headers inserted into the active document so far
    last                    \* the latest invocation of insertHeader since the user
                            \* last changed a setting or the editor: editor (the editor
                            \* it started with), run (its record), previous (the number
                            \* of edits of the invocation right before it)

vars == <<configView, activeTextEditor, cachedLanguageConfigs, workspace, insertions, last>>

NoRun == [editor |-> Undefined, run |-> Undefined, previous |-> 0]

Init ==
    /\ configView \in Configurations
    /\ activeTextEditor = Undefined
    /\ cachedLanguageConfigs = {}
    /\ workspace \in 1..Len(Workspaces)
    /\ insertions = 0
    /\ last = NoRun

\* the state after an invocation with record run
Invoked(run) ==
    /\ cachedLanguageConfigs' = run.cache
    /\ activeTextEditor' =
           IF IsDefined(activeTextEditor)
           THEN Some([Val(activeTextEditor) EXCEPT
                         !.text = ApplyEdits(Val(activeTextEditor).text, run.edits, 1)])
           ELSE Undefined
    /\ insertions' = insertions + Len(run.edits)
    /\ last' = [editor |-> activeTextEditor, run |-> Some(run),
                previous |-> IF IsDefined(last.run) THEN Len(Val(last.run).edits) ELSE 0]

\* the command: one invocation of insertHeader, its edit applied
InsertHeader ==
    /\ insertions < MaxInsertions
    /\ Invoked(RunInsertHeader(configView, activeTextEditor, cachedLanguageConfigs))
    /\ UNCHANGED <<configView, workspace>>

\* the user opens a file of the workspace
OpenTextEditor ==
    /\ \E d \in Workspaces[workspace] : activeTextEditor' = Some(d)
    /\ insertions' = 0
    /\ last' = NoRun
    /\ UNCHANGED <<configView, cachedLanguageConfigs, workspace>>

\* the user closes the editor
CloseTextEditor ==
    /\ IsDefined(activeTextEditor)
    /\ activeTextEditor' = Undefined
    /\ insertions' = 0
    /\ last' = NoRun
    /\ UNCHANGED <<configView, cachedLanguageConfigs, workspace>>

\* the user changes the settings in the Settings editor, which is no text
\* editor: vscode.window.activeTextEditor is undefined while it has the focus
UpdateConfiguration ==
    /\ ~IsDefined(activeTextEditor)
    /\ \E c \in Configurations \ {configView} : configView' = c
    /\ last' = NoRun
    /\ UNCHANGED <<activeTextEditor, cachedLanguageConfigs, workspace, insertions>>

Next == InsertHeader \/ OpenTextEditor \/ CloseTextEditor \/ UpdateConfiguration

Spec == Init /\ [][Next]_vars

(***************************************************************************)
(* What the properties below read from the state.                          *)
(***************************************************************************)
Ran == IsDefined(last.run)
LastRun == Val(last.run)
Inserted == Ran /\ LastRun.edits # <<>>
Formatted == Ran /\ IsDefined(LastRun.header)
TextBeforeRun == Val(last.editor).text
TextAfterRun == Val(activeTextEditor).text
LastLookup == Val(LastRun.lookup)
LastLanguage == Val(LastLookup.value)
LastCommentRule == Val(LastLanguage.vsconfig.comments)
LastBody ==
    CopyrightMap(LastRun.config.license, LastRun.config.data.holder,
                 LastRun.config.data.year)

\* the elements of a sequence
Range(seq) == {seq[k] : k \in 1..Len(seq)}

ContainsCopyright(s) == Includes(ToLowerCase(s), "copyright")
BeginsWithIgnoringCase(s, token) ==
    Len(s) >= Len(token) /\ ToLowerCase(SubSeq(s, 1, Len(token))) = ToLowerCase(token)
AfterToken(s, token) == SubSeq(s, Len(token) + 1, Len(s))

\* the first ten lines of a text
LeadingLines(text) ==
    LET lines == Split(text)
    IN  IF Len(lines) > 10 THEN SubSeq(lines, 1, 10) ELSE lines

(***************************************************************************)
(* C1  Idempotence: an invocation of insertHeader that directly follows    *)
(* one that inserted a header (same settings, same document, the edit      *)
(* applied) issues no edit.                                                *)
(***************************************************************************)
C1_Idempotent == ~(Inserted /\ last.previous > 0)

(***************************************************************************)
(* C2  No edit on a stop: an invocation that logs one of the five stop     *)
(* messages (or throws) issues no insertion and leaves the document as it  *)
(* was; an insertion is issued only with a supported license, an active    *)
(* editor, a resolved language and no header detected in the document;     *)
(* an invocation issues at most one insertion.                             *)
(***************************************************************************)
C2_NoEditOnStop ==
    Ran =>
        /\ Len(LastRun.edits) <= 1
        /\ (LastRun.thrown \/ Range(LastRun.log) \cap StopMessages # {})
               => (LastRun.edits = <<>> /\ activeTextEditor = last.editor)
        /\ LastRun.edits # <<>> =>
               /\ LastRun.log = <<>>
               /\ ~LastRun.thrown
               /\ OrElse(configView.license, "apache") \in CopyrightMapKeys
               /\ IsDefined(last.editor)
               /\ IsDefined(LastRun.lookup) /\ IsDefined(LastLookup.value)
               /\ ~HasCopyright(TextBeforeRun, LastLanguage.vsconfig.comments).value
               /\ Val(LastRun.header) # ""

C2_Witness == Ran /\ MsgHasHeader \in Range(LastRun.log) /\ IsDefined(last.editor)

(***************************************************************************)
(* C3  Holder and year defaults: the holder and the year given to the      *)
(* license template are never empty; the holder is "Google LLC" when the   *)
(* holder setting is unset or empty, the year is the current year when the *)
(* year setting is unset or empty; a non-empty setting is used unchanged.  *)
(***************************************************************************)
C3_Defaults ==
    Formatted =>
        LET data == LastRun.config.data
            Blank(setting) == ~IsDefined(setting) \/ Val(setting) = ""
        IN  /\ data.holder # "" /\ data.year # ""
            /\ data.holder = IF Blank(configView.holder) THEN "Google LLC"
                             ELSE Val(configView.holder)
            /\ data.year = IF Blank(configView.year) THEN CurrentYear
                           ELSE Val(configView.year)

C5_InsertLine ==
    (Ran /\ IsDefined(LastRun.startLine)) =>
        LET first == Split(TextBeforeRun)[1]
            id    == LastLookup.id
        IN  /\ Val(LastRun.startLine) \in {0, 1}
            /\ Val(LastRun.startLine) = 1 <=>
                   \/ /\ IsDefined(LastLanguage.firstLine)
                      /\ RegExpTest(Val(LastLanguage.firstLine), first)
                   \/ id = "html" /\ StartsWith(first, "<!doctype")
                   \/ id = "shellscript" /\ StartsWith(first, "#!/")
            /\ (Inserted /\ Val(LastRun.startLine) = 1) =>
                   StartsWith(TextAfterRun, first \o "\n" \o Val(LastRun.header))

C5_Witness ==
    /\ Inserted
    /\ LastLookup.id = "shellscript"
    /\ Val(LastRun.startLine) = 1
    /\ ~RegExpTest(Val(LastLanguage.firstLine), Split(TextBeforeRun)[1])
    /\ NewlineOffsets(TextBeforeRun) # {}

(***************************************************************************)
(* C6  Wrapping strategy: the header is block wrapped when forceLineComment*)
(* is false and the language has a block comment; otherwise every line of  *)
(* it starts with the line-comment token when the language has one; it is  *)
(* the unwrapped body only when the language has neither.                  *)
(***************************************************************************)
IsBlockWrapped(header, c) ==
    LET lines == Split(header)
    IN  /\ Len(lines) >= 4
        /\ lines[1] \in {Val(c.blockComment)[1], Val(c.blockComment)[1] \o "*"}
        /\ lines[Len(lines) - 2] \in {Val(c.blockComment)[2], " " \o Val(c.blockComment)[2]}

IsLinePrefixed(header, c) ==
    LET lines == Split(header)
    IN  \A k \in 1..(Len(lines) - 2) : StartsWith(lines[k], Val(c.lineComment))

IsUnwrapped(header, body) ==
    LET lines == Split(header)
        bodyLines == Split(body)
    IN  /\ Len(lines) = Len(bodyLines) + 2
        /\ \A k \in 1..Len(bodyLines) : lines[k] = TrimRight(bodyLines[k])

C6_WrappingStrategy ==
    Formatted =>
        LET c      == LastCommentRule
            force  == LastRun.config.useLineComment
            header == Val(LastRun.header)
        IN  /\ (~force /\ HasBlockComment(c)) => IsBlockWrapped(header, c)
            /\ (~(~force /\ HasBlockComment(c)) /\ HasLineComment(c))
                   => IsLinePrefixed(header, c)
            /\ IsUnwrapped(header, LastBody) => (~HasBlockComment(c) /\ ~HasLineComment(c))

(***************************************************************************)
(* C7  Banner shape, as claimed: with the block comment ("/*", "*/") and   *)
(* forceLineComment false the header is the line "/**", one line per body  *)
(* line, each beginning with " * ", the line " */" and one empty line.     *)
(***************************************************************************)
IsBanner == Formatted /\ ~LastRun.config.useLineComment
            /\ LastCommentRule.blockComment = Some(<<"/*", "*/">>)

C7_BannerEveryLinePrefixed ==
    IsBanner =>
        LET lines == Split(Val(LastRun.header))
            n     == Len(Split(LastBody))
        IN  /\ Len(lines) = n + 4
            /\ lines[1] = "/**"
            /\ \A k \in 1..n : StartsWith(lines[k + 1], " * ")
            /\ lines[n + 2] = " */"
            /\ lines[n + 3] = "" /\ lines[n + 4] = ""

(***************************************************************************)
(* C7  Banner shape, as the code has it: the header is the line "/**", one *)
(* line per body line, the line " */" and one empty line; the line of a    *)
(* body line is " * " and the body line without its trailing white space,  *)
(* and the line of a blank body line is " *".                              *)
(***************************************************************************)
C7_BannerLinesTrimmed ==
    IsBanner =>
        LET lines == Split(Val(LastRun.header))
            body  == Split(LastBody)
            n     == Len(body)
        IN  /\ Len(lines) = n + 4
            /\ lines[1] = "/**"
            /\ \A k \in 1..n :
                   lines[k + 1] = IF TrimRight(body[k]) = "" THEN " *"
                                  ELSE " * " \o TrimRight(body[k])
            /\ lines[n + 2] = " */"
            /\ lines[n + 3] = "" /\ lines[n + 4] = ""

C7_Witness == IsBanner /\ "" \in Range(Split(LastBody)) /\ Inserted

(***************************************************************************)
(* C8  Detection, as claimed: hasCopyright is true exactly when, within    *)
(* the first ten lines, a line begins with the block-comment opener and    *)
(* "Copyright" (in any case) follows before that block comment is closed,  *)
(* or a line begins with the line-comment token and holds "Copyright"      *)
(* later on that line.                                                     *)
(***************************************************************************)
\* the text of lines[i..] after the first Len(token) characters of lines[i]
RECURSIVE JoinedFrom(_, _)
JoinedFrom(lines, i) ==
    IF i > Len(lines) THEN ""
    ELSE lines[i] \o (IF i < Len(lines) THEN "\n" \o JoinedFrom(lines, i + 1) ELSE "")

\* s up to the first occurrence of closer in it
UpToCloser(s, closer) ==
    IF Includes(s, closer)
    THEN SubSeq(s, 1, (CHOOSE i \in 1..Len(s) :
                          /\ StartsWithAt(s, closer, i)
                          /\ \A j \in 1..(i - 1) : ~StartsWithAt(s, closer, j)) - 1)
    ELSE s

RECURSIVE FlatLanguagesFrom(_)
FlatLanguagesFrom(e) ==
    IF e > Len(Extensions) THEN <<>>
    ELSE (IF IsDefined(Extensions[e].languages)
          THEN [k \in 1..Len(Val(Extensions[e].languages)) |->
                   [extension |-> Extensions[e], data |-> Val(Extensions[e].languages)[k]]]
          ELSE <<>>) \o FlatLanguagesFrom(e + 1)

FlatLanguages == FlatLanguagesFrom(1)

Lists(data, fileExt) == IsDefined(data.extensions) /\ fileExt \in Range(Val(data.extensions))

\* the outcome the first of the contributions picked makes, Undefined when none is
FirstOf(picked, id) ==
    IF picked = {} THEN Value(Undefined)
    ELSE LET k == CHOOSE i \in picked : \A j \in picked : i <= j
         IN  BuildLanguageConfig(FlatLanguages[k].extension, FlatLanguages[k].data, id)

Missed == Ran /\ IsDefined(LastRun.lookup) /\ ~LastLookup.hit

C9_FirstMatchByDeclaredExtensions ==
    Missed =>
        LET id      == LastLookup.id
            fileExt == ToLowerCase(ExtName(LastLookup.fileName))
            picked  == {k \in 1..Len(FlatLanguages) :
                           /\ FlatLanguages[k].data.id = id
                           /\ \/ ~IsDefined(FlatLanguages[k].data.extensions)
                              \/ Val(FlatLanguages[k].data.extensions) = <<>>
                              \/ Lists(FlatLanguages[k].data, fileExt)}
        IN  /\ LastLookup.kind = "value"
            /\ LastLookup.value = FirstOf(picked, id).value

(***************************************************************************)
(* C9  Resolver matching, as the code has it: on a cache miss the loop     *)
(* stops at the first installed language, in the host's order, whose id is *)
(* the requested one and for which the file's lowercase extension is empty *)
(* or is in the language's extension list, and returns the configuration   *)
(* built from it (an exception if its configuration file cannot be         *)
(* loaded); a language of that id without any extension list, met before   *)
(* with a file extension that is not empty, makes the call throw; the      *)
(* result is undefined exactly when the loop meets neither.  A language    *)
(* with an empty extension list matches no file that has an extension.     *)
(***************************************************************************)
C9_FirstMatchByFileExtension ==
    Missed =>
        LET id      == LastLookup.id
            fileExt == ToLowerCase(ExtName(LastLookup.fileName))
            matches == {k \in 1..Len(FlatLanguages) :
                           /\ FlatLanguages[k].data.id = id
                           /\ fileExt = "" \/ Lists(FlatLanguages[k].data, fileExt)}
            throws  == {k \in 1..Len(FlatLanguages) :
                           /\ FlatLanguages[k].data.id = id
                           /\ fileExt # ""
                           /\ ~IsDefined(FlatLanguages[k].data.extensions)}
        IN  IF \E t \in throws : \A m \in matches : t < m
            THEN LastLookup.kind = "throw"
            ELSE /\ LastLookup.kind = FirstOf(matches, id).kind
                 /\ LastLookup.kind = "value" => LastLookup.value = FirstOf(matches, id).value

C9_Witness ==
    /\ Missed
    /\ LastLookup.id = "c"
    /\ ToLowerCase(ExtName(LastLookup.fileName)) = ".cc"
    /\ IsDefined(LastLookup.value)
    /\ LastLanguage.vsconfig = Comments(Some("//"), Undefined)

(***************************************************************************)
(* C10  Cache integrity: a cache hit for a language id and a file          *)
(* extension returns the LanguageConfig built for that id and extension    *)
(* (its id is the requested one); every entry of the cache is the          *)
(* successful resolution of a language id and an extension, stored under   *)
(* their key; an entry, once stored, is never removed or replaced.         *)
(***************************************************************************)
\* the language id and extension pairs the open workspace can ask for
Requests ==
    {<<d.languageId, ToLowerCase(ExtName(d.fileName))>> : d \in Workspaces[workspace]}

CacheIsSound ==
    /\ (Ran /\ IsDefined(LastRun.lookup) /\ LastLookup.hit) =>
           /\ LastLanguage.id = LastLookup.id
           /\ LastLookup.value =
                  ScanExtensions(1, LastLookup.id,
                                 ToLowerCase(ExtName(LastLookup.fileName))).value
    /\ \A e \in cachedLanguageConfigs :
           \E r \in Requests :
               /\ e.key = r[1] \o "+" \o r[2]
               /\ e.value.id = r[1]
               /\ Some(e.value) = ScanExtensions(1, r[1], r[2]).value
    /\ \A e, f \in cachedLanguageConfigs : e.key = f.key => e = f

CacheOnlyGrows == \A e \in cachedLanguageConfigs : e \in cachedLanguageConfigs'

C10_CacheIntegrity == [](CacheIsSound) /\ [][CacheOnlyGrows]_vars

C10_Witness ==
    /\ Ran /\ IsDefined(LastRun.lookup) /\ LastLookup.hit
    /\ \E e, f \in cachedLanguageConfigs :
           /\ e.value.id = f.value.id
           /\ e.key # f.key
           /\ e.value # f.value

====
